---- MODULE Spec2Model ----
(***************************************************************************)
(* Model of the Chinese Grammar Wiki -> Anki scraper (src/main.py).        *)
(*                                                                         *)
(* Python strings are modelled as sequences of one-character strings, so   *)
(* that str.strip(), str.replace() and str.join() are computed rather than *)
(* assumed.  A value of type "str | None" is a record [present, text]:     *)
(* None is [present |-> FALSE, text |-> <<>>].                             *)
(***************************************************************************)
EXTENDS Naturals, Sequences, FiniteSets

VARIABLES
    pc,               \* position of the running function
    existing_cards,   \* diff_existing_and_scraped: the existing mapping (dict)
    scraped_cards,    \* diff_existing_and_scraped: the cards iterated so far
    cards_to_export,  \* diff_existing_and_scraped: the export list
    stats,            \* diff_existing_and_scraped: DeckDiffStats
    outcome,          \* per iterated card, the branch of the loop body that ran
    page,             \* parse_point_page: the page being parsed (url, h1, blocks)
    div,              \* parse_point_page: index in page.blocks of the last example div handled
    parsed,           \* parse_point_page: the list of records built so far
    origin,           \* per record of parsed, the index of the div it was derived from
    warnings,         \* the diagnostics printed so far
    li_tag,           \* extract_and_decompose_li_components: the children of the list item
    li_given,         \* the children of the list item as they were when it was passed
    components,       \* extract_and_decompose_li_components: the returned tuple
    level_pages,      \* parse_level_pages: the index pages passed, each a sequence of links
    level_i,          \* parse_level_pages: the number of pages iterated
    point_urls,       \* parse_level_pages: the list of identifiers
    urls,             \* get_with_verification: the requested list
    is_test,          \* get_with_verification: the reduced-test mode
    url_i,            \* get_with_verification: the number of urls the loop has taken
    url_and_pages,    \* get_with_verification: the result list
    has_validated,    \* get_with_verification: whether the first page was waited for
    fetched,          \* the urls passed to browser.get so far
    deck,             \* main: args.deck and what the file system holds at that path
    extracted,        \* main: the cards parse_point_pages returned
    written,          \* the calls of write_to_anki_deck so far
    printed           \* main: the lines printed so far

diffVars == <<existing_cards, scraped_cards, cards_to_export, stats, outcome>>
parseVars == <<page, div, parsed, origin, warnings>>
extractVars == <<li_tag, li_given, components>>
levelVars == <<level_pages, level_i, point_urls>>
fetchVars == <<urls, is_test, url_i, url_and_pages, has_validated, fetched>>
mainVars == <<deck, extracted, written, printed>>
vars == <<pc, diffVars, parseVars, extractVars, levelVars, fetchVars, mainVars>>

\* what each function leaves alone
nonDiffVars == <<parseVars, extractVars, levelVars, fetchVars, mainVars>>
nonParseVars == <<diffVars, extractVars, levelVars, fetchVars, mainVars>>
nonExtractVars == <<diffVars, parseVars, levelVars, fetchVars, mainVars>>
nonLevelVars == <<diffVars, parseVars, extractVars, fetchVars, mainVars>>
nonFetchVars == <<diffVars, parseVars, extractVars, levelVars, mainVars>>
nonMainVars == <<parseVars, extractVars, levelVars, fetchVars>>

---------------------------------------------------------------------------
(* Bounds *)

MaxCards == 2
MaxBlocks == 2
MaxLis == 2
MaxNodes == 3
MaxPages == 2
MaxLinks == 3
MaxUrls == 3

---------------------------------------------------------------------------
(* Strings *)

WS == {" ", "\n"}

None == [present |-> FALSE, text |-> <<>>]
Some(s) == [present |-> TRUE, text |-> s]

\* extract_and_decompose_li_components has not been called
ExtractIdle ==
    /\ li_tag = <<>>
    /\ li_given = <<>>
    /\ components = [hanzi |-> <<>>, pinyin |-> None, trans |-> None, expl |-> None]

\* parse_level_pages has not been called
LevelIdle ==
    /\ level_pages = <<>>
    /\ level_i = 0
    /\ point_urls = <<>>

\* get_with_verification has not been called
FetchIdle ==
    /\ urls = <<>>
    /\ is_test = FALSE
    /\ url_i = 0
    /\ url_and_pages = <<>>
    /\ has_validated = FALSE
    /\ fetched = <<>>

\* main has not been called
MainIdle ==
    /\ deck = [given |-> FALSE, exists |-> FALSE, readable |-> FALSE, cards |-> <<>>]
    /\ extracted = <<>>
    /\ written = <<>>
    /\ printed = <<>>

RECURSIVE lstrip(_)
lstrip(s) == IF s # <<>> /\ Head(s) \in WS THEN lstrip(Tail(s)) ELSE s

RECURSIVE rstrip(_)
rstrip(s) ==
    IF s # <<>> /\ s[Len(s)] \in WS THEN rstrip(SubSeq(s, 1, Len(s) - 1)) ELSE s

\* mutant: only leading whitespace is removed
strip_leading_only(s) == lstrip(s)

\* str.strip()
strip(s) == rstrip(lstrip(s))

---------------------------------------------------------------------------
(* Cards *)

TRANSLATION_MODEL == "TRANSLATION_MODEL"
VALID_EXAMPLE_MODEL == "VALID_EXAMPLE_MODEL"
INVALID_EXAMPLE_MODEL == "INVALID_EXAMPLE_MODEL"

\* CardContent
Card(m, h, p, t, n, s, u, a) ==
    [model |-> m, hanzi |-> h, pinyin |-> p, translation |-> t,
     notes |-> n, structure |-> s, url |-> u, article_title |-> a]

\* no page is being parsed
NoPage == [url |-> <<>>, h1 |-> None, blocks |-> <<>>]

\* diff_existing_and_scraped has not been called
DiffIdle ==
    /\ existing_cards = <<>>
    /\ scraped_cards = <<>>
    /\ cards_to_export = <<>>
    /\ stats = [new |-> 0, update |-> 0, skipped |-> 0]
    /\ outcome = <<>>

\* parse_point_page has not been called
ParseIdle ==
    /\ page = NoPage
    /\ div = 0
    /\ parsed = <<>>
    /\ origin = <<>>
    /\ warnings = <<>>

---------------------------------------------------------------------------
(* diff_existing_and_scraped *)

DiffHanzi == {<<"NI">>, <<"HAO">>}
DiffPinyin == {<<"a", "b">>, <<"a", "b", " ">>, <<"a", " ", "b">>, <<"c">>}
DiffTrans == {<<"t">>, <<"\n", "t">>, <<"u">>}
SnapPinyin == {<<"a", "b">>, <<" ", "a", "b">>}
SnapTrans == {<<"t">>, <<"t", " ">>}

DiffCards ==
    {Card(TRANSLATION_MODEL, h, p, t, <<"n">>, <<"s">>, <<"u", "r", "l">>, <<"T">>) :
        h \in DiffHanzi, p \in DiffPinyin, t \in DiffTrans}

Snapshots == [pinyin : SnapPinyin, translation : SnapTrans]

ExistingMaps == UNION {[K -> Snapshots] : K \in SUBSET DiffHanzi}

\* mutant: update only when both compared fields differ
changed_both(card, existing) ==
    /\ strip(card.translation) # strip(existing.translation)
    /\ strip(card.pinyin) # strip(existing.pinyin)

\* the condition of the inner if
changed(card, existing) ==
    \/ strip(card.translation) # strip(existing.translation)
    \/ strip(card.pinyin) # strip(existing.pinyin)

\* mutant: the structure field takes part in change detection
classify_with_structure(existing, card) ==
    IF card.hanzi \notin DOMAIN existing THEN "new"
    ELSE IF changed(card, existing[card.hanzi]) \/ card.structure # <<>> THEN "update"
    ELSE "skipped"

\* which branch of the loop body a card takes
classify(existing, card) ==
    IF card.hanzi \notin DOMAIN existing THEN "new"
    ELSE IF changed(card, existing[card.hanzi]) THEN "update"
    ELSE "skipped"

\* mutant: the skipped branch forgets its counter
bump_unless_skipped(st, c) == IF c = "skipped" THEN st ELSE [st EXCEPT ![c] = @ + 1]

\* stats[c] += 1
bump(st, c) == [st EXCEPT ![c] = @ + 1]

\* mutant: exported cards are inserted at the front
export_prepend(export, c, card) ==
    IF c \in {"new", "update"} THEN <<card>> \o export ELSE export

\* mutant: an exported card replaces the earlier exported cards of its hanzi
export_overwrite(export, c, card) ==
    IF c \in {"new", "update"}
    THEN Append(SelectSeq(export, LAMBDA e : e.hanzi # card.hanzi), card)
    ELSE export

\* cards_to_export.append(card) in the new and update branches
export_append(export, c, card) ==
    IF c \in {"new", "update"} THEN Append(export, card) ELSE export

DiffInit ==
    /\ pc = "diff_loop"
    /\ existing_cards \in ExistingMaps
    /\ scraped_cards = <<>>
    /\ cards_to_export = <<>>
    /\ stats = [new |-> 0, update |-> 0, skipped |-> 0]
    /\ outcome = <<>>
    /\ page = NoPage
    /\ div = 0
    /\ parsed = <<>>
    /\ origin = <<>>
    /\ warnings = <<>>
    /\ ExtractIdle
    /\ LevelIdle
    /\ FetchIdle
    /\ MainIdle

\* one iteration of "for card in scraped_cards"
diff_loop_body(card) ==
    /\ pc = "diff_loop"
    /\ Len(scraped_cards) < MaxCards
    /\ scraped_cards' = Append(scraped_cards, card)
    /\ LET c == classify(existing_cards, card) IN
        /\ outcome' = Append(outcome, c)
        /\ cards_to_export' = export_append(cards_to_export, c, card)
        /\ stats' = bump(stats, c)
    /\ UNCHANGED <<pc, existing_cards, nonDiffVars>>

\* the loop is exhausted: return cards_to_export, stats
diff_return ==
    /\ pc = "diff_loop"
    /\ pc' = "diff_returned"
    /\ UNCHANGED <<diffVars, nonDiffVars>>

DiffNext ==
    \/ \E card \in DiffCards : diff_loop_body(card)
    \/ diff_return

SpecDiff == DiffInit /\ [][DiffNext]_vars

---------------------------------------------------------------------------
(* Claims about diff_existing_and_scraped *)

CountOf(c) == Cardinality({i \in 1..Len(outcome) : outcome[i] = c})

RECURSIVE Exported(_, _)
Exported(cards, out) ==
    IF cards = <<>> THEN <<>>
    ELSE (IF Head(out) \in {"new", "update"} THEN <<Head(cards)>> ELSE <<>>)
         \o Exported(Tail(cards), Tail(out))

C1_Counts ==
    /\ Len(outcome) = Len(scraped_cards)
    /\ \A i \in 1..Len(outcome) : outcome[i] \in {"new", "update", "skipped"}
    /\ stats.new = CountOf("new")
    /\ stats.update = CountOf("update")
    /\ stats.skipped = CountOf("skipped")
    /\ stats.new + stats.update + stats.skipped = Len(scraped_cards)
    /\ Len(cards_to_export) = stats.new + stats.update

C1_Step ==
    /\ stats'.new >= stats.new
    /\ stats'.update >= stats.update
    /\ stats'.skipped >= stats.skipped
    /\ (stats'.new + stats'.update + stats'.skipped) - (stats.new + stats.update + stats.skipped)
         = Len(scraped_cards') - Len(scraped_cards)

\* C1: every scraped card is classified as exactly one of new / update /
\* skipped: after any prefix of k cards exactly k increments have happened, no
\* counter ever decreases, new + update + skipped is the number of scraped
\* cards and the export list has length new + update.
C1_Total == []C1_Counts /\ [][C1_Step]_vars

C1_Witness ==
    /\ pc = "diff_returned"
    /\ stats.update = 1
    /\ stats.skipped = 1
    /\ Len(cards_to_export) = 1

AllWS(s) == \A i \in 1..Len(s) : s[i] \in WS

\* s is core with only whitespace added before and after it
Pads(s, core) ==
    \E i \in 0..Len(s) :
        /\ i + Len(core) <= Len(s)
        /\ SubSeq(s, i + 1, i + Len(core)) = core
        /\ AllWS(SubSeq(s, 1, i))
        /\ AllWS(SubSeq(s, i + Len(core) + 1, Len(s)))

\* a and b differ at most in leading and trailing whitespace
EdgeWSOnly(a, b) ==
    \E i \in 0..Len(a), j \in 0..Len(a) :
        /\ i <= j
        /\ Pads(a, SubSeq(a, i + 1, j))
        /\ Pads(b, SubSeq(a, i + 1, j))

InRange(x, seq) == \E i \in 1..Len(seq) : seq[i] = x

\* C2 (stated of the card just iterated; every card is, in some state):
\* a card whose hanzi is in the existing mapping and whose pinyin and
\* translation differ from the snapshot only in leading/trailing whitespace is
\* skipped and not exported; one whose pinyin or translation differs in
\* internal whitespace or in a non-whitespace character is an update.
C2_Whitespace ==
    (pc = "diff_loop" /\ scraped_cards # <<>>) =>
        LET i == Len(scraped_cards)
            card == scraped_cards[i]
        IN
        card.hanzi \in DOMAIN existing_cards =>
            LET snap == existing_cards[card.hanzi] IN
            IF /\ EdgeWSOnly(card.pinyin, snap.pinyin)
               /\ EdgeWSOnly(card.translation, snap.translation)
            THEN outcome[i] = "skipped" /\ ~InRange(card, cards_to_export)
            ELSE outcome[i] = "update"

NoWS(s) == SelectSeq(s, LAMBDA c : c \notin WS)

C2_Witness ==
    \E i, j \in 1..Len(scraped_cards) :
        LET a == scraped_cards[i]
            b == scraped_cards[j]
        IN  /\ a.hanzi \in DOMAIN existing_cards
            /\ b.hanzi \in DOMAIN existing_cards
            /\ outcome[i] = "skipped"
            /\ a.pinyin # existing_cards[a.hanzi].pinyin
            /\ a.translation # existing_cards[a.hanzi].translation
            /\ outcome[j] = "update"
            /\ b.translation = existing_cards[b.hanzi].translation
            /\ b.pinyin # existing_cards[b.hanzi].pinyin
            /\ NoWS(b.pinyin) = NoWS(existing_cards[b.hanzi].pinyin)

IsPrefix(s, t) == Len(s) <= Len(t) /\ SubSeq(t, 1, Len(s)) = s

C3_Export ==
    /\ cards_to_export = Exported(scraped_cards, outcome)
    /\ \A i \in 1..Len(cards_to_export) : InRange(cards_to_export[i], scraped_cards)

C3_Step ==
    /\ existing_cards' = existing_cards
    /\ IsPrefix(scraped_cards, scraped_cards')
    /\ IsPrefix(cards_to_export, cards_to_export')

\* C3: the export list is the subsequence of the scraped cards classified new
\* or update, in input order, each the scraped record itself (an update
\* carries the scraped translation and pinyin, not the snapshot's); the input
\* cards and the existing mapping are not modified.
C3_Subsequence == []C3_Export /\ [][C3_Step]_vars

C3_Witness ==
    /\ pc = "diff_returned"
    /\ Len(cards_to_export) = 2
    /\ outcome[1] = "update"
    /\ outcome[2] = "new"
    /\ cards_to_export[1].translation # existing_cards[cards_to_export[1].hanzi].translation
    /\ cards_to_export[1] # cards_to_export[2]

DiffNotes == {<<>>, <<"n">>}
DiffStructure == {<<>>, <<"s">>}
DiffUrl == {<<"u", "r", "l">>, <<"u", "r", "l", "2">>}
DiffTitle == {<<"T">>, <<"U">>}
DiffModel == {TRANSLATION_MODEL, VALID_EXAMPLE_MODEL}

\* the cards that agree with card on hanzi, pinyin and translation
Variants(card) ==
    {Card(m, card.hanzi, card.pinyin, card.translation, n, s, u, a) :
        m \in DiffModel, n \in DiffNotes, s \in DiffStructure, u \in DiffUrl, a \in DiffTitle}

\* C4 (stated of the card just iterated; every card is, in some state):
\* cards that agree on hanzi, pinyin and translation get the same
\* classification against the same existing mapping, whatever their notes,
\* structure, url, article_title and model.
C4_OnlyComparedFields ==
    (pc = "diff_loop" /\ scraped_cards # <<>>) =>
        LET i == Len(scraped_cards) IN
        \A v \in Variants(scraped_cards[i]) :
            classify(existing_cards, v) = outcome[i]

C4_Witness ==
    \E i, j \in 1..Len(scraped_cards) :
        /\ outcome[i] = "skipped"
        /\ outcome[j] = "update"
        /\ \E v \in Variants(scraped_cards[i]) :
            /\ v.notes # scraped_cards[i].notes
            /\ v.structure # scraped_cards[i].structure
            /\ v.url # scraped_cards[i].url

---------------------------------------------------------------------------
(* The document tree of a content page *)

\* a child of a list item: a text node ("text") or a span of the named class
Node(tag, text) == [tag |-> tag, text |-> text]

\* <li class=...>children</li>
Li(class, children) == [class |-> class, children |-> children]

\* <div class="jiegou">text</div>
Jiegou(text) ==
    [kind |-> "jiegou", text |-> text, hasUl |-> FALSE, class |-> {}, lis |-> <<>>]

\* <div class="liju"> without any <ul>
LijuNoUl ==
    [kind |-> "liju", text |-> <<>>, hasUl |-> FALSE, class |-> {}, lis |-> <<>>]

\* <div class="liju"><ul class=...>lis</ul></div>
Liju(class, lis) ==
    [kind |-> "liju", text |-> <<>>, hasUl |-> TRUE, class |-> class, lis |-> lis]

---------------------------------------------------------------------------
(* BeautifulSoup and pypinyin, as far as main.py uses them *)

RECURSIVE concat(_)
concat(ss) == IF ss = <<>> THEN <<>> ELSE Head(ss) \o concat(Tail(ss))

\* sep.join(ss)
RECURSIVE join(_, _)
join(sep, ss) ==
    IF ss = <<>> THEN <<>>
    ELSE IF Len(ss) = 1 THEN Head(ss)
    ELSE Head(ss) \o sep \o join(sep, Tail(ss))

\* tag.find("span", class_=cls): the index of the first such child, 0 for None
find(children, cls) ==
    IF \E i \in 1..Len(children) : children[i].tag = cls
    THEN CHOOSE i \in 1..Len(children) :
            /\ children[i].tag = cls
            /\ \A j \in 1..(i - 1) : children[j].tag # cls
    ELSE 0

\* tag.decompose() of the i-th child
decompose(children, i) ==
    SubSeq(children, 1, i - 1) \o SubSeq(children, i + 1, Len(children))

\* tag.get_text(strip=True): every string stripped, the empty ones dropped
get_text_strip(children) ==
    concat([i \in 1..Len(children) |-> strip(children[i].text)])

\* pypinyin's reading of one character; other characters pass through
syllable(c) ==
    IF c = "NI" THEN <<"n", "i">>
    ELSE IF c = "HAO" THEN <<"h", "a", "o">>
    ELSE <<c>>

\* ''.join([w[0] for w in pinyin(text, style=Style.TONE)])
synthesize(text) == concat([i \in 1..Len(text) |-> syllable(text[i])])

---------------------------------------------------------------------------
(* parse_point_page and its helpers *)

BR == <<"<", "b", "r", ">">>

\* maybe_get_tag_text_and_decompose applied to li_tag.find("span", class_=cls):
\* the span's text or None, and the children that remain
take(children, cls) ==
    LET i == find(children, cls) IN
    IF i = 0 THEN [text |-> None, rest |-> children]
    ELSE [text |-> Some(children[i].text), rest |-> decompose(children, i)]

\* .replace(' ', '')
remove_spaces(s) == SelectSeq(s, LAMBDA c : c # " ")

extract_and_decompose_li_components(children) ==
    LET p == take(children, "pinyin")
        t == take(p.rest, "trans")
        e == take(t.rest, "expl")
    IN  [hanzi |-> remove_spaces(get_text_strip(e.rest)),
         pinyin |-> p.text, trans |-> t.text, expl |-> e.text]

\* mutant: the space after the speaker label is missing
prepend_without_space(maybe_text, speaker_text) ==
    IF maybe_text.present
    THEN Some(speaker_text \o maybe_text.text)
    ELSE maybe_text

maybe_prepend_speaker_text(maybe_text, speaker_text) ==
    IF maybe_text.present
    THEN Some(speaker_text \o <<" ">> \o maybe_text.text)
    ELSE maybe_text

\* filter(None, lines): the lines that are neither None nor empty
RECURSIVE filter_none(_)
filter_none(lines) ==
    IF lines = <<>> THEN <<>>
    ELSE (IF Head(lines).present /\ Head(lines).text # <<>>
          THEN <<Head(lines).text>> ELSE <<>>) \o filter_none(Tail(lines))

\* x or ""
or_empty(maybe_text) == IF maybe_text.present THEN maybe_text.text ELSE <<>>

\* mutant: the structure block is looked up anywhere on the page (soup.find)
structure_of_page(blocks, d) ==
    LET all == {j \in 1..Len(blocks) : blocks[j].kind = "jiegou"} IN
    IF all = {} THEN <<>>
    ELSE strip(blocks[CHOOSE j \in all : \A k \in all : j <= k].text)

\* div.find_previous("div", class_="jiegou") and the text taken from it
structure_of(blocks, d) ==
    LET before == {j \in 1..(d - 1) : blocks[j].kind = "jiegou"} IN
    IF before = {} THEN <<>>
    ELSE strip(blocks[CHOOSE j \in before : \A k \in before : k <= j].text)

\* mutant: a list item without speaker span ends the dialog loop (break)
dialog_line_break(li, rest) ==
    LET i == find(li.children, "speaker") IN
    IF i = 0
    THEN [hanzi |-> <<>>, pinyin |-> <<>>, trans |-> <<>>, expl |-> <<>>,
          warned |-> <<"no speaker tag">>]
    ELSE
        LET speaker_text == strip(li.children[i].text)
            c == extract_and_decompose_li_components(decompose(li.children, i))
        IN  [hanzi |-> <<maybe_prepend_speaker_text(Some(c.hanzi), speaker_text)>> \o rest.hanzi,
             pinyin |-> <<maybe_prepend_speaker_text(c.pinyin, speaker_text)>> \o rest.pinyin,
             trans |-> <<maybe_prepend_speaker_text(c.trans, speaker_text)>> \o rest.trans,
             expl |-> <<maybe_prepend_speaker_text(c.expl, speaker_text)>> \o rest.expl,
             warned |-> rest.warned]

\* the body of "for li in lis" of a dialog, for the item li followed by the
\* items whose lines and warnings are rest
dialog_line(li, rest) ==
    LET i == find(li.children, "speaker") IN
    IF i = 0
    THEN [rest EXCEPT !.warned = <<"no speaker tag">> \o @]
    ELSE
        LET speaker_text == strip(li.children[i].text)
            c == extract_and_decompose_li_components(decompose(li.children, i))
        IN  [hanzi |-> <<maybe_prepend_speaker_text(Some(c.hanzi), speaker_text)>> \o rest.hanzi,
             pinyin |-> <<maybe_prepend_speaker_text(c.pinyin, speaker_text)>> \o rest.pinyin,
             trans |-> <<maybe_prepend_speaker_text(c.trans, speaker_text)>> \o rest.trans,
             expl |-> <<maybe_prepend_speaker_text(c.expl, speaker_text)>> \o rest.expl,
             warned |-> rest.warned]

\* the dialog loop of one <ul class="dialog">: the four line lists and the warnings
RECURSIVE dialog_lines(_)
dialog_lines(lis) ==
    IF lis = <<>>
    THEN [hanzi |-> <<>>, pinyin |-> <<>>, trans |-> <<>>, expl |-> <<>>, warned |-> <<>>]
    ELSE dialog_line(Head(lis), dialog_lines(Tail(lis)))

texts(lines) == [i \in 1..Len(lines) |-> lines[i].text]

\* the record built from a dialog group
dialog_card(lis, structure, url, title) ==
    LET l == dialog_lines(lis)
        hanzi_text == strip(join(BR, texts(l.hanzi)))
        pinyin_text == join(BR, filter_none(l.pinyin))
        trans_text == join(BR, filter_none(l.trans))
        expl_text == join(BR, filter_none(l.expl))
    IN  Card(TRANSLATION_MODEL, hanzi_text, pinyin_text, trans_text, expl_text,
             structure, url, title)

\* mutant: the "x" class is looked at first
model_of_x_first(class) ==
    IF "x" \in class THEN INVALID_EXAMPLE_MODEL
    ELSE IF "o" \in class THEN VALID_EXAMPLE_MODEL
    ELSE TRANSLATION_MODEL

\* the model chosen from the classes of a standalone list item
model_of(class) ==
    IF "o" \in class THEN VALID_EXAMPLE_MODEL
    ELSE IF "x" \in class THEN INVALID_EXAMPLE_MODEL
    ELSE TRANSLATION_MODEL

\* the record built from a standalone list item
example_card(li, structure, url, title) ==
    LET c == extract_and_decompose_li_components(li.children)
        pinyin_text == IF c.pinyin.present THEN c.pinyin.text ELSE synthesize(c.hanzi)
    IN  Card(model_of(li.class), c.hanzi, pinyin_text, or_empty(c.trans),
             or_empty(c.expl), structure, url, title)

\* the index of the first example div after block d, 0 when there is none
next_div(blocks, d) ==
    LET later == {j \in (d + 1)..Len(blocks) : blocks[j].kind = "liju"} IN
    IF later = {} THEN 0 ELSE CHOOSE j \in later : \A k \in later : j <= k

\* the document is complete: soup = BeautifulSoup(content), and
\* soup.find("h1").get_text(strip=True) on a page that has an h1
parse_start ==
    /\ pc = "load"
    /\ page.h1.present
    /\ pc' = "parse_loop"
    /\ UNCHANGED <<nonParseVars, parseVars>>

\* the document is complete and soup.find("h1") is None: .get_text raises
\* AttributeError
parse_raise_no_h1 ==
    /\ pc = "load"
    /\ ~page.h1.present
    /\ pc' = "parse_raised"
    /\ UNCHANGED <<nonParseVars, parseVars>>

\* div.find("ul") is None: ul.get raises AttributeError
parse_raise_no_ul ==
    /\ pc = "parse_loop"
    /\ next_div(page.blocks, div) # 0
    /\ ~page.blocks[next_div(page.blocks, div)].hasUl
    /\ pc' = "parse_raised"
    /\ div' = next_div(page.blocks, div)
    /\ UNCHANGED <<nonParseVars, page, parsed, origin, warnings>>

\* one iteration of "for div in example_divs" on a dialog group
parse_dialog_div ==
    /\ pc = "parse_loop"
    /\ next_div(page.blocks, div) # 0
    /\ LET d == next_div(page.blocks, div)
           b == page.blocks[d]
       IN  /\ b.hasUl
           /\ "dialog" \in b.class
           /\ div' = d
           /\ parsed' = Append(parsed, dialog_card(b.lis, structure_of(page.blocks, d),
                                                   page.url, strip(page.h1.text)))
           /\ origin' = Append(origin, d)
           /\ warnings' = warnings \o dialog_lines(b.lis).warned
    /\ UNCHANGED <<pc, nonParseVars, page>>

\* one iteration of "for div in example_divs" on a group of standalone items
parse_examples_div ==
    /\ pc = "parse_loop"
    /\ next_div(page.blocks, div) # 0
    /\ LET d == next_div(page.blocks, div)
           b == page.blocks[d]
       IN  /\ b.hasUl
           /\ "dialog" \notin b.class
           /\ div' = d
           /\ parsed' = parsed \o [i \in 1..Len(b.lis) |->
                            example_card(b.lis[i], structure_of(page.blocks, d),
                                         page.url, strip(page.h1.text))]
           /\ origin' = origin \o [i \in 1..Len(b.lis) |-> d]
    /\ UNCHANGED <<pc, nonParseVars, page, warnings>>

\* example_divs is exhausted: return parsed
parse_return ==
    /\ pc = "parse_loop"
    /\ next_div(page.blocks, div) = 0
    /\ pc' = "parse_returned"
    /\ UNCHANGED <<nonParseVars, parseVars>>

---------------------------------------------------------------------------
(* The pages parse_point_page is applied to *)

OptNode(tag, maybe_text) == IF maybe_text.present THEN <<Node(tag, maybe_text.text)>> ELSE <<>>

\* a list item laid out as in the wiki: speaker, pinyin, trans, expl spans, then text
LiOf(class, speaker, pinyin_span, trans, expl, text) ==
    Li(class, OptNode("speaker", speaker) \o OptNode("pinyin", pinyin_span)
              \o OptNode("trans", trans) \o OptNode("expl", expl)
              \o (IF text = <<>> THEN <<>> ELSE <<Node("text", text)>>))

A == <<"A", ":">>
Ni == <<"n", "i">>
Hi == <<"H", "i">>
Expl == <<"e">>

\* the items of a dialog: a full line, and the lines that differ from it in one part
DialogLis ==
    {LiOf({}, Some(A), Some(Ni), Some(Hi), None, <<" ", "NI">>),
     LiOf({"o"}, Some(A), Some(Ni), Some(Hi), None, <<" ", "NI">>),
     LiOf({}, None, Some(Ni), Some(Hi), None, <<" ", "NI">>),
     LiOf({}, Some(A), None, Some(Hi), None, <<" ", "NI">>),
     LiOf({}, Some(A), Some(<<>>), Some(Hi), None, <<" ", "NI">>),
     LiOf({}, Some(A), Some(Ni), None, None, <<" ", "NI">>),
     LiOf({}, Some(A), Some(Ni), Some(Hi), Some(Expl), <<" ", "NI">>),
     LiOf({}, Some(A), Some(Ni), Some(Hi), None, <<>>)}

\* the standalone items: a full example, and those that differ from it in one part
ExampleLis ==
    {LiOf({}, None, Some(Ni), Some(Hi), None, <<" ", "NI">>),
     LiOf({"o"}, None, Some(Ni), Some(Hi), None, <<" ", "NI">>),
     LiOf({"x"}, None, Some(Ni), Some(Hi), None, <<" ", "NI">>),
     LiOf({"o", "x"}, None, Some(Ni), Some(Hi), None, <<" ", "NI">>),
     LiOf({}, None, None, Some(Hi), None, <<" ", "NI">>),
     LiOf({}, None, Some(<<>>), Some(Hi), None, <<" ", "NI">>),
     LiOf({}, None, Some(Ni), None, None, <<" ", "NI">>),
     LiOf({}, None, Some(Ni), Some(Hi), Some(Expl), <<" ", "NI">>),
     LiOf({}, None, Some(Ni), Some(Hi), None, <<>>)}

RECURSIVE LiSeqs(_, _)
LiSeqs(lis, n) ==
    IF n = 0 THEN {<<>>} ELSE {Append(s, li) : s \in LiSeqs(lis, n - 1), li \in lis}

\* the blocks that hold exactly n list items
BlocksOf(n) ==
    IF n = 0
    THEN {Jiegou(<<"S">>), Jiegou(<<"T", " ">>), LijuNoUl, Liju({}, <<>>), Liju({"dialog"}, <<>>)}
    ELSE {Liju({"dialog"}, lis) : lis \in LiSeqs(DialogLis, n)}
         \cup {Liju({}, lis) : lis \in LiSeqs(ExampleLis, n)}

Url == <<"u", "r", "l">>

\* the number of list items in a sequence of blocks
RECURSIVE NumLis(_)
NumLis(blocks) == IF blocks = <<>> THEN 0 ELSE Len(Head(blocks).lis) + NumLis(Tail(blocks))

\* a page with a heading, or one without (which here holds no list items)
ParseInit ==
    /\ pc = "load"
    /\ page \in [url : {Url}, h1 : {None, Some(<<"T", "\n">>)}, blocks : {<<>>}]
    /\ div = 0
    /\ parsed = <<>>
    /\ origin = <<>>
    /\ warnings = <<>>
    /\ existing_cards = <<>>
    /\ scraped_cards = <<>>
    /\ cards_to_export = <<>>
    /\ stats = [new |-> 0, update |-> 0, skipped |-> 0]
    /\ outcome = <<>>
    /\ ExtractIdle
    /\ LevelIdle
    /\ FetchIdle
    /\ MainIdle

\* the fetched document has one more block
load_block ==
    /\ pc = "load"
    /\ Len(page.blocks) < MaxBlocks
    /\ \E k \in 0..(IF page.h1.present THEN MaxLis - NumLis(page.blocks) ELSE 0) :
        \E b \in BlocksOf(k) :
            page' = [page EXCEPT !.blocks = Append(@, b)]
    /\ UNCHANGED <<pc, nonParseVars, div, parsed, origin, warnings>>

ParseNext ==
    \/ load_block
    \/ parse_start
    \/ parse_raise_no_h1
    \/ parse_raise_no_ul
    \/ parse_dialog_div
    \/ parse_examples_div
    \/ parse_return

SpecParse == ParseInit /\ [][ParseNext]_vars

---------------------------------------------------------------------------
(* Claims about parse_point_page *)

HasSpan(li, cls) == \E i \in 1..Len(li.children) : li.children[i].tag = cls

\* the text of the first span of that class, None without one
SpanText(li, cls) ==
    IF HasSpan(li, cls)
    THEN Some(li.children[find(li.children, cls)].text)
    ELSE None

IsDialog(b) == b.kind = "liju" /\ b.hasUl /\ "dialog" \in b.class
IsExamples(b) == b.kind = "liju" /\ b.hasUl /\ "dialog" \notin b.class

\* parse_point_page has ended, by returning or by raising
Ended == pc \in {"parse_returned", "parse_raised"}

\* once parse_point_page has ended, the example divs whose loop iteration
\* was completed
Processed ==
    IF ~Ended THEN {}
    ELSE {d \in 1..Len(page.blocks) :
            /\ page.blocks[d].kind = "liju"
            /\ d <= div
            /\ (pc = "parse_raised" => d < div)}

\* the records derived from div d, in the order of parsed
RECURSIVE Pick(_, _, _)
Pick(recs, orig, d) ==
    IF recs = <<>> THEN <<>>
    ELSE (IF Head(orig) = d THEN <<Head(recs)>> ELSE <<>>) \o Pick(Tail(recs), Tail(orig), d)

FromDiv(d) == Pick(parsed, origin, d)

\* what is left of the item's text once the spans of the classes in gone are
\* taken out, without spaces
LineHanzi(li, gone) ==
    LET kept == SelectSeq(li.children, LAMBDA n : n.tag \notin gone) IN
    remove_spaces(concat([i \in 1..Len(kept) |-> strip(kept[i].text)]))

Spans == {"pinyin", "trans", "expl"}

\* C5: every record emitted by parse_point_page has a non-empty hanzi field.
C5_NonEmptyHanzi == Ended => \A k \in 1..Len(parsed) : parsed[k].hanzi # <<>>

Retained(lis) == SelectSeq(lis, LAMBDA li : HasSpan(li, "speaker"))

\* C6: a standalone item without pinyin span, and a dialog in which no
\* retained line has a pinyin span, yield a record whose pinyin is the
\* transcription synthesized from its hanzi; a pinyin span that is present is
\* never replaced.
C6_PinyinSynthesized ==
    \A d \in Processed :
        LET b == page.blocks[d]
            recs == FromDiv(d)
        IN
        IF IsDialog(b)
        THEN \A k \in 1..Len(recs) :
                (\A i \in 1..Len(b.lis) :
                    HasSpan(b.lis[i], "speaker") => ~HasSpan(b.lis[i], "pinyin"))
                => recs[k].pinyin = synthesize(recs[k].hanzi)
        ELSE Len(recs) = Len(b.lis) =>
             \A i \in 1..Len(recs) :
                IF HasSpan(b.lis[i], "pinyin")
                THEN recs[i].pinyin = SpanText(b.lis[i], "pinyin").text
                ELSE recs[i].pinyin = synthesize(recs[i].hanzi)

\* the value of one field of a dialog line
LineField(li, f) ==
    IF f = "hanzi" THEN Some(LineHanzi(li, Spans \cup {"speaker"})) ELSE SpanText(li, f)

\* label, one space and value of the retained lines that have the field, in source order
RECURSIVE Labelled(_, _)
Labelled(lis, f) ==
    IF lis = <<>> THEN <<>>
    ELSE (IF HasSpan(Head(lis), "speaker") /\ LineField(Head(lis), f).present
          THEN <<strip(SpanText(Head(lis), "speaker").text) \o <<" ">>
                    \o LineField(Head(lis), f).text>>
          ELSE <<>>) \o Labelled(Tail(lis), f)

RECURSIVE WithBreaks(_)
WithBreaks(ls) ==
    IF ls = <<>> THEN <<>>
    ELSE IF Tail(ls) = <<>> THEN Head(ls)
    ELSE Head(ls) \o <<"<", "b", "r", ">">> \o WithBreaks(Tail(ls))

DialogFields(d, rec) ==
    /\ rec.model = TRANSLATION_MODEL
    /\ rec.pinyin = WithBreaks(Labelled(page.blocks[d].lis, "pinyin"))
    /\ rec.translation = WithBreaks(Labelled(page.blocks[d].lis, "trans"))
    /\ rec.notes = WithBreaks(Labelled(page.blocks[d].lis, "expl"))

\* C7 as stated: a dialog group yields exactly one Translation record whose
\* hanzi, pinyin, translation and notes are the retained lines in source order,
\* each present value prefixed by its speaker label and one space, separated
\* by "<br>".
C7_DialogRecord ==
    \A d \in Processed :
        IsDialog(page.blocks[d]) =>
            /\ Len(FromDiv(d)) = 1
            /\ DialogFields(d, FromDiv(d)[1])
            /\ FromDiv(d)[1].hanzi = WithBreaks(Labelled(page.blocks[d].lis, "hanzi"))

\* C7 amended: as C7, except that leading and trailing whitespace of the
\* joined hanzi field is removed.
C7_DialogRecordStripped ==
    \A d \in Processed :
        IsDialog(page.blocks[d]) =>
            /\ Len(FromDiv(d)) = 1
            /\ DialogFields(d, FromDiv(d)[1])
            /\ FromDiv(d)[1].hanzi = strip(WithBreaks(Labelled(page.blocks[d].lis, "hanzi")))

C7_Witness ==
    /\ pc = "parse_returned"
    /\ \E d \in Processed :
        /\ IsDialog(page.blocks[d])
        /\ Len(Labelled(page.blocks[d].lis, "hanzi")) = 2
        /\ Len(Labelled(page.blocks[d].lis, "pinyin")) = 2
        /\ "o" \in page.blocks[d].lis[1].class
        /\ FromDiv(d)[1].hanzi # WithBreaks(Labelled(page.blocks[d].lis, "hanzi"))

NumSpeakerless(lis) == Len(lis) - Len(Retained(lis))

RECURSIVE NumWarnings(_)
NumWarnings(ds) ==
    IF ds = {} THEN 0
    ELSE LET d == CHOOSE x \in ds : TRUE IN
         (IF IsDialog(page.blocks[d]) THEN NumSpeakerless(page.blocks[d].lis) ELSE 0)
         + NumWarnings(ds \ {d})

\* C8: a dialog item without speaker span is skipped on its own: a warning is
\* printed, the line contributes nothing to the record, the other lines of the
\* dialog are aggregated as if it were not there, and later groups are still
\* processed.
C8_SpeakerlessSkipped ==
    /\ \A d \in Processed :
        IsDialog(page.blocks[d]) =>
            FromDiv(d) = <<dialog_card(Retained(page.blocks[d].lis),
                                       structure_of(page.blocks, d), page.url,
                                       strip(page.h1.text))>>
    /\ Ended => Len(warnings) = NumWarnings(Processed)
    /\ pc = "parse_returned" =>
        /\ Processed = {d \in 1..Len(page.blocks) : page.blocks[d].kind = "liju"}
        /\ \A d \in Processed : IsExamples(page.blocks[d]) =>
                Len(FromDiv(d)) = Len(page.blocks[d].lis)

C8_Witness ==
    /\ pc = "parse_returned"
    /\ Len(warnings) = 1
    /\ \E d, e \in Processed :
        /\ d < e
        /\ IsDialog(page.blocks[d])
        /\ Len(page.blocks[d].lis) = 2
        /\ ~HasSpan(page.blocks[d].lis[1], "speaker")
        /\ FromDiv(d)[1].hanzi # <<>>
        /\ FromDiv(e) # <<>>

ExampleFields(li, rec) ==
    /\ rec.hanzi = LineHanzi(li, Spans)
    /\ rec.translation = SpanText(li, "trans").text
    /\ rec.notes = SpanText(li, "expl").text

\* C9 as stated: a standalone item's record is a ValidExample if the item
\* carries "o", an InvalidExample if it carries "x", a Translation if it
\* carries neither; each item produces its own record, in list order.
C9_ModelOfMarker ==
    \A d \in Processed :
        IsExamples(page.blocks[d]) =>
            /\ Len(FromDiv(d)) = Len(page.blocks[d].lis)
            /\ \A i \in 1..Len(page.blocks[d].lis) :
                LET li == page.blocks[d].lis[i]
                    rec == FromDiv(d)[i]
                IN  /\ ExampleFields(li, rec)
                    /\ "o" \in li.class => rec.model = VALID_EXAMPLE_MODEL
                    /\ "x" \in li.class => rec.model = INVALID_EXAMPLE_MODEL
                    /\ ("o" \notin li.class /\ "x" \notin li.class)
                        => rec.model = TRANSLATION_MODEL

\* C9 amended: as C9, except that an item is an InvalidExample if it carries
\* "x" and does not carry "o"; an item that carries both is a ValidExample.
C9_ModelOfMarkerOFirst ==
    \A d \in Processed :
        IsExamples(page.blocks[d]) =>
            /\ Len(FromDiv(d)) = Len(page.blocks[d].lis)
            /\ \A i \in 1..Len(page.blocks[d].lis) :
                LET li == page.blocks[d].lis[i]
                    rec == FromDiv(d)[i]
                IN  /\ ExampleFields(li, rec)
                    /\ "o" \in li.class => rec.model = VALID_EXAMPLE_MODEL
                    /\ ("x" \in li.class /\ "o" \notin li.class)
                        => rec.model = INVALID_EXAMPLE_MODEL
                    /\ ("o" \notin li.class /\ "x" \notin li.class)
                        => rec.model = TRANSLATION_MODEL

C9_Witness ==
    /\ pc = "parse_returned"
    /\ \E d \in Processed :
        /\ IsExamples(page.blocks[d])
        /\ Len(page.blocks[d].lis) = 2
        /\ page.blocks[d].lis[1].class = {"x"}
        /\ page.blocks[d].lis[2].class = {"o", "x"}
        /\ FromDiv(d)[1].model = INVALID_EXAMPLE_MODEL
        /\ FromDiv(d)[2].model = VALID_EXAMPLE_MODEL

\* C10: for a page with zero example groups parse_point_page raises no error
\* and returns an empty sequence, also when the page has no top-level heading.
C10_NoGroupsNoError ==
    (/\ pc # "load"
     /\ \A d \in 1..Len(page.blocks) : page.blocks[d].kind # "liju")
    => /\ pc # "parse_raised"
       /\ pc = "parse_returned" => parsed = <<>>

\* block j is a structure block before div d with none between the two
NearestBefore(j, d) ==
    /\ j < d
    /\ page.blocks[j].kind = "jiegou"
    /\ \A i \in (j + 1)..(d - 1) : page.blocks[i].kind # "jiegou"

---------------------------------------------------------------------------
(* extract_and_decompose_li_components on its own *)

\* the children a list item is made of: text nodes with whitespace at the
\* edges and inside, the three spans, and an element of another kind
ExtractNodes ==
    {Node("text", <<"NI">>),
     Node("text", <<" ", "NI", "\n">>),
     Node("text", <<"NI", " ", "HAO">>),
     Node("text", <<"NI", "\n", "HAO">>),
     Node("text", <<"\n", " ">>),
     Node("em", <<"HAO">>),
     Node("pinyin", <<"n", "i", " ">>),
     Node("trans", Hi),
     Node("expl", Expl)}

ExtractInit ==
    /\ pc = "extract_build"
    /\ ExtractIdle
    /\ DiffIdle
    /\ ParseIdle
    /\ LevelIdle
    /\ FetchIdle
    /\ MainIdle

\* the list item has one more child
extract_add_child(n) ==
    /\ pc = "extract_build"
    /\ Len(li_tag) < MaxNodes
    /\ li_tag' = Append(li_tag, n)
    /\ UNCHANGED <<pc, li_given, components, nonExtractVars>>

\* the children of li_tag once the three spans found have been decomposed
decomposed(children) ==
    take(take(take(children, "pinyin").rest, "trans").rest, "expl").rest

\* the call: the spans found are decomposed, the tuple is returned
extract_call ==
    /\ pc = "extract_build"
    /\ pc' = "extract_returned"
    /\ li_given' = li_tag
    /\ components' = extract_and_decompose_li_components(li_tag)
    /\ li_tag' = decomposed(li_tag)
    /\ UNCHANGED nonExtractVars

ExtractNext ==
    \/ \E n \in ExtractNodes : extract_add_child(n)
    \/ extract_call

SpecExtract == ExtractInit /\ [][ExtractNext]_vars

---------------------------------------------------------------------------
(* Claim about extract_and_decompose_li_components *)

SpanClasses == {"pinyin", "trans", "expl"}

\* the children of a list item other than its pinyin, translation and
\* explanation span (the first of each class)
RECURSIVE Without(_, _, _)
Without(children, gone, i) ==
    IF i > Len(children) THEN <<>>
    ELSE (IF i \in gone THEN <<>> ELSE <<children[i]>>) \o Without(children, gone, i + 1)

Remaining(children) ==
    Without(children, {find(children, cls) : cls \in SpanClasses}, 1)

\* the text of a sequence of nodes
TextOf(children) == concat([i \in 1..Len(children) |-> children[i].text])

\* C11: the hanzi returned by extract_and_decompose_li_components is the text
\* of the list item that remains once the pinyin, translation and explanation
\* spans are removed, with all whitespace characters removed (leading,
\* trailing and internal); the three spans are removed from the item; and
\* the text of each span is returned when the span is present, None otherwise.
C11_HanziWithoutWhitespace ==
    pc = "extract_returned" =>
        /\ li_tag = Remaining(li_given)
        /\ components.hanzi = NoWS(TextOf(Remaining(li_given)))
        /\ \A cls \in SpanClasses :
            components[cls] = SpanText(Li({}, li_given), cls)

---------------------------------------------------------------------------
(* parse_level_pages *)

BASE_URL == <<"https://resources.allsetlearning.com/chinese/grammar/">>

\* an <a> element of an index page: whether it lies inside a table of class
\* wikitable, whether it has the class mw-redirect, and its title attribute
Link(in_wikitable, mw_redirect, title) ==
    [in_wikitable |-> in_wikitable, mw_redirect |-> mw_redirect, title |-> title]

\* mutant: the table is not part of the selector ("a.mw-redirect")
select_without_table(links) == SelectSeq(links, LAMBDA a : a.mw_redirect)

\* soup.select("table.wikitable a.mw-redirect"): the matches in document order
select(links) == SelectSeq(links, LAMBDA a : a.in_wikitable /\ a.mw_redirect)

\* the value an f-string gives to link.get("title")
format(maybe_title) ==
    IF maybe_title.present THEN maybe_title.text ELSE <<"N", "o", "n", "e">>

\* [f"{BASE_URL}{link.get("title")}" for link in point_page_links]
urls_of(links) == [k \in 1..Len(links) |-> BASE_URL \o format(links[k].title)]

\* the links an index page can hold
Links ==
    {Link(t, r, Some(<<"P">>)) : t, r \in BOOLEAN}
        \cup {Link(TRUE, TRUE, Some(<<"Q">>)), Link(TRUE, TRUE, None)}

NumLinks == Len(concat(level_pages))

LevelInit ==
    /\ pc = "level_build"
    /\ LevelIdle
    /\ DiffIdle
    /\ ParseIdle
    /\ ExtractIdle
    /\ FetchIdle
    /\ MainIdle

\* one more index page was fetched
level_add_page ==
    /\ pc = "level_build"
    /\ Len(level_pages) < MaxPages
    /\ level_pages' = Append(level_pages, <<>>)
    /\ UNCHANGED <<pc, level_i, point_urls, nonLevelVars>>

\* the last index page has one more link
level_add_link(a) ==
    /\ pc = "level_build"
    /\ level_pages # <<>>
    /\ NumLinks < MaxLinks
    /\ level_pages' = [level_pages EXCEPT ![Len(level_pages)] = Append(@, a)]
    /\ UNCHANGED <<pc, level_i, point_urls, nonLevelVars>>

\* the call: point_urls = []
level_call ==
    /\ pc = "level_build"
    /\ pc' = "level_loop"
    /\ UNCHANGED <<levelVars, nonLevelVars>>

\* one iteration of "for page in level_pages"
level_loop_body ==
    /\ pc = "level_loop"
    /\ level_i < Len(level_pages)
    /\ level_i' = level_i + 1
    /\ point_urls' = point_urls \o urls_of(select(level_pages[level_i + 1]))
    /\ UNCHANGED <<pc, level_pages, nonLevelVars>>

\* the loop is exhausted: return point_urls
level_return ==
    /\ pc = "level_loop"
    /\ level_i = Len(level_pages)
    /\ pc' = "level_returned"
    /\ UNCHANGED <<levelVars, nonLevelVars>>

LevelNext ==
    \/ level_add_page
    \/ \E a \in Links : level_add_link(a)
    \/ level_call
    \/ level_loop_body
    \/ level_return

SpecLevel == LevelInit /\ [][LevelNext]_vars

---------------------------------------------------------------------------
(* Claim about parse_level_pages *)

\* the links of the first n index pages, in input and document order
Flat(n) == concat(SubSeq(level_pages, 1, n))

\* the redirect-classed links inside a wikitable among them
Matching(n) == SelectSeq(Flat(n), LAMBDA a : a.mw_redirect /\ a.in_wikitable)

\* the index pages without such a link
Barren == {i \in 1..Len(level_pages) :
            \A k \in 1..Len(level_pages[i]) :
                ~(level_pages[i][k].mw_redirect /\ level_pages[i][k].in_wikitable)}

\* C13: parse_level_pages returns, for the index pages in input order, one
\* identifier per redirect-classed link inside a wikitable-classed table, in
\* document order, each the base address followed by the link's title
\* (duplicates kept); other links contribute nothing, and a page without
\* such a link contributes no identifier and raises nothing.
C13_OneIdentifierPerLink ==
    pc \in {"level_loop", "level_returned"} =>
        LET ms == Matching(level_i) IN
        /\ Len(point_urls) = Len(ms)
        /\ \A k \in 1..Len(ms) :
            ms[k].title.present => point_urls[k] = BASE_URL \o ms[k].title.text
        /\ (pc = "level_returned" => level_i = Len(level_pages))

C13_Witness ==
    /\ pc = "level_returned"
    /\ Len(level_pages) = 2
    /\ Barren = {2}
    /\ Len(Flat(2)) = 3
    /\ point_urls = <<BASE_URL \o <<"P">>, BASE_URL \o <<"P">>>>

---------------------------------------------------------------------------
(* get_with_verification *)

BLOCKLIST == <<BASE_URL \o <<"ASGH4A7W">>>>

\* url in BLOCKLIST
in_blocklist(url) == \E k \in 1..Len(BLOCKLIST) : BLOCKLIST[k] = url

\* the urls a caller can request
Urls == {BASE_URL \o <<"P">>, BASE_URL \o <<"Q">>, BASE_URL \o <<"ASGH4A7W">>}

\* what page.get_content() can give
Contents == {<<"<", "h", "1", ">">>, <<>>}

\* mutant: the loop is left in test mode whether or not there is a result
break_in_test(test, results) == test

\* "if is_test and url_and_pages": an empty list is false
break_now(test, results) == test /\ results # <<>>

FetchInit ==
    /\ pc = "fetch_build"
    /\ FetchIdle
    /\ MainIdle
    /\ DiffIdle
    /\ ParseIdle
    /\ ExtractIdle
    /\ LevelIdle

\* the requested list has one more url
fetch_add_url(url) ==
    /\ pc = "fetch_build"
    /\ Len(urls) < MaxUrls
    /\ urls' = Append(urls, url)
    /\ UNCHANGED <<pc, is_test, url_i, url_and_pages, has_validated, fetched, nonFetchVars>>

\* the call: url_and_pages = [], has_validated = False
fetch_call(test) ==
    /\ pc = "fetch_build"
    /\ pc' = "fetch_loop"
    /\ is_test' = test
    /\ UNCHANGED <<urls, url_i, url_and_pages, has_validated, fetched, nonFetchVars>>

\* the loop takes its next url and breaks: return url_and_pages
fetch_break ==
    /\ pc = "fetch_loop"
    /\ url_i < Len(urls)
    /\ break_now(is_test, url_and_pages)
    /\ pc' = "fetch_returned"
    /\ url_i' = url_i + 1
    /\ UNCHANGED <<urls, is_test, url_and_pages, has_validated, fetched, nonFetchVars>>

\* the next url is blocklisted: continue
fetch_continue ==
    /\ pc = "fetch_loop"
    /\ url_i < Len(urls)
    /\ ~break_now(is_test, url_and_pages)
    /\ in_blocklist(urls[url_i + 1])
    /\ url_i' = url_i + 1
    /\ UNCHANGED <<pc, urls, is_test, url_and_pages, has_validated, fetched, nonFetchVars>>

\* the next url is fetched and its content appended
fetch_get(content) ==
    /\ pc = "fetch_loop"
    /\ url_i < Len(urls)
    /\ ~break_now(is_test, url_and_pages)
    /\ ~in_blocklist(urls[url_i + 1])
    /\ url_i' = url_i + 1
    /\ fetched' = Append(fetched, urls[url_i + 1])
    /\ has_validated' = TRUE
    /\ url_and_pages' = Append(url_and_pages, [url |-> urls[url_i + 1], content |-> content])
    /\ UNCHANGED <<pc, urls, is_test, nonFetchVars>>

\* browser.get is called for the next url and raises
fetch_get_raises ==
    /\ pc = "fetch_loop"
    /\ url_i < Len(urls)
    /\ ~break_now(is_test, url_and_pages)
    /\ ~in_blocklist(urls[url_i + 1])
    /\ url_i' = url_i + 1
    /\ fetched' = Append(fetched, urls[url_i + 1])
    /\ pc' = "fetch_raised"
    /\ UNCHANGED <<urls, is_test, url_and_pages, has_validated, nonFetchVars>>

\* the loop is exhausted: return url_and_pages
fetch_return ==
    /\ pc = "fetch_loop"
    /\ url_i = Len(urls)
    /\ pc' = "fetch_returned"
    /\ UNCHANGED <<fetchVars, nonFetchVars>>

FetchNext ==
    \/ \E url \in Urls : fetch_add_url(url)
    \/ \E test \in BOOLEAN : fetch_call(test)
    \/ fetch_break
    \/ fetch_continue
    \/ \E content \in Contents : fetch_get(content)
    \/ fetch_get_raises
    \/ fetch_return

SpecFetch == FetchInit /\ [][FetchNext]_vars

---------------------------------------------------------------------------
(* Claim about get_with_verification *)

\* the identifiers of the pairs collected
ResultUrls == [k \in 1..Len(url_and_pages) |-> url_and_pages[k].url]

\* the requested urls that are not deny-listed, in the order requested
Allowed == SelectSeq(urls, LAMBDA u : \A k \in 1..Len(BLOCKLIST) : u # BLOCKLIST[k])

\* s can be obtained from t by leaving elements out
RECURSIVE IsSubsequence(_, _)
IsSubsequence(s, t) ==
    IF s = <<>> THEN TRUE
    ELSE IF t = <<>> THEN FALSE
    ELSE IF Head(s) = Head(t) THEN IsSubsequence(Tail(s), Tail(t))
    ELSE IsSubsequence(s, Tail(t))

C14_Result ==
    /\ IsSubsequence(ResultUrls, urls)
    /\ \A k \in 1..Len(ResultUrls) : \A j \in 1..Len(BLOCKLIST) : ResultUrls[k] # BLOCKLIST[j]
    /\ (pc = "fetch_returned" /\ ~is_test) => ResultUrls = Allowed
    /\ (pc = "fetch_returned" /\ is_test) =>
            /\ Len(ResultUrls) <= 1
            /\ ResultUrls = (IF Allowed = <<>> THEN <<>> ELSE <<Allowed[1]>>)

\* in test mode nothing is fetched once there is a result
C14_Step ==
    (is_test /\ url_and_pages # <<>>) => fetched' = fetched

\* C14: the identifiers of the pairs returned by get_with_verification form
\* an order-preserving subsequence of the requested list without any
\* deny-listed url; in normal mode every requested url that is not
\* deny-listed is among them, in test mode exactly the first such url (at
\* most one result), and no page is fetched after the first result.
C14_FetchedSubsequence == []C14_Result /\ [][C14_Step]_vars

C14_Witness ==
    /\ pc = "fetch_returned"
    /\ is_test
    /\ Len(urls) = 3
    /\ in_blocklist(urls[1])
    /\ ~in_blocklist(urls[3])
    /\ ResultUrls = <<urls[2]>>
    /\ fetched = <<urls[2]>>

---------------------------------------------------------------------------
(* Claims about scraped cards of one hanzi in diff_existing_and_scraped *)

\* the scraped cards of hanzi h that went through the new or update branch
Exportable(h) ==
    {i \in 1..Len(scraped_cards) :
        scraped_cards[i].hanzi = h /\ outcome[i] \in {"new", "update"}}

\* the positions of the export list that hold a card of hanzi h
ExportedAs(h) == {k \in 1..Len(cards_to_export) : cards_to_export[k].hanzi = h}

\* C15 (as claimed): when two scraped records have the same hanzi and both
\* are classified new or update, the second overwrites the first: the export
\* list holds at most one record per hanzi, the later one of the input.
C15_LaterOverwrites ==
    \A h \in DiffHanzi :
        /\ Cardinality(ExportedAs(h)) <= 1
        /\ \A k \in ExportedAs(h) :
            \A i \in Exportable(h) :
                cards_to_export[k] = scraped_cards[i] \/ \E j \in Exportable(h) : j > i

\* C15 (amended): when two scraped records have the same hanzi and both are
\* classified new or update, both are in the export list, the earlier one
\* before the later one: the export list holds one record per scraped record
\* classified new or update, nothing is overwritten.
C15_DuplicatesKept ==
    \A h \in DiffHanzi :
        /\ Cardinality(ExportedAs(h)) = Cardinality(Exportable(h))
        /\ \A i, j \in Exportable(h) :
            i < j => \E k, l \in ExportedAs(h) :
                        /\ k < l
                        /\ cards_to_export[k] = scraped_cards[i]
                        /\ cards_to_export[l] = scraped_cards[j]

C15_Witness ==
    /\ pc = "diff_returned"
    /\ Len(scraped_cards) = 2
    /\ scraped_cards[1].hanzi = scraped_cards[2].hanzi
    /\ scraped_cards[1] # scraped_cards[2]
    /\ outcome = <<"update", "update">>
    /\ cards_to_export = scraped_cards

---------------------------------------------------------------------------
(* main, from the return of parse_point_pages on *)

DEFAULT_DECK_LOCATION == <<"decks/cgw_examples.apkg">>

Digits == <<"0", "1", "2", "3", "4", "5", "6", "7", "8", "9">>

\* str(n), as an f-string formats a count
RECURSIVE str(_)
str(n) == IF n < 10 THEN <<Digits[n + 1]>> ELSE str(n \div 10) \o <<Digits[(n % 10) + 1]>>

\* the whole of diff_existing_and_scraped: its loop run to the end
RECURSIVE diff_from(_, _, _, _, _)
diff_from(existing, cards, export, st, out) ==
    IF cards = <<>> THEN [cards_to_export |-> export, stats |-> st, outcome |-> out]
    ELSE LET c == classify(existing, Head(cards)) IN
         diff_from(existing, Tail(cards), export_append(export, c, Head(cards)),
                   bump(st, c), Append(out, c))

diff_existing_and_scraped(existing, cards) ==
    diff_from(existing, cards, <<>>, [new |-> 0, update |-> 0, skipped |-> 0], <<>>)

\* get_existing_cards_from_deck: {} unless the deck can be read
get_existing_cards_from_deck(d) ==
    IF ~d.given \/ ~d.exists THEN <<>>
    ELSE IF d.readable THEN d.cards
    ELSE <<>>

\* genanki.guid_for(hanzi)
guid_for(hanzi) == <<"guid">> \o hanzi

\* the notes write_to_anki_deck adds to the deck, one per card
notes_of(anki_cards) ==
    [k \in 1..Len(anki_cards) |->
        [model |-> anki_cards[k].model,
         fields |-> <<anki_cards[k].hanzi, anki_cards[k].pinyin, anki_cards[k].translation,
                      anki_cards[k].notes, anki_cards[k].structure, anki_cards[k].url,
                      anki_cards[k].article_title>>,
         guid |-> guid_for(anki_cards[k].hanzi)]]

\* one call of write_to_anki_deck
write_to_anki_deck(anki_cards, output_filename) ==
    [anki_cards |-> anki_cards, output_filename |-> output_filename,
     notes |-> notes_of(anki_cards)]

\* mutant: the export list is never taken for empty
nothing_to_export_never(cards) == FALSE

\* len(cards_to_export) == 0
nothing_to_export(cards) == Len(cards) = 0

\* path_to_deck is not None and os.path.exists(path_to_deck)
deck_found(d) == d.given /\ d.exists

\* the four lines of the report
report(st) ==
    << <<"\n--- Report ---">>,
       <<"New Cards: ">> \o str(st.new),
       <<"Updates:   ">> \o str(st.update) \o <<" (Content changed)">>,
       <<"Skipped:   ">> \o str(st.skipped) \o <<" (Identical)">> >>

\* the cards parse_point_pages can return
MainCards ==
    {c \in DiffCards : c.pinyin \in {<<"a", "b">>, <<"c">>} /\ c.translation = <<"t">>}

\* --deck not passed; passed but no such file; a file that cannot be read as
\* a deck; a deck with its notes
Decks ==
    {[given |-> FALSE, exists |-> FALSE, readable |-> FALSE, cards |-> <<>>],
     [given |-> TRUE, exists |-> FALSE, readable |-> FALSE, cards |-> <<>>],
     [given |-> TRUE, exists |-> TRUE, readable |-> FALSE, cards |-> <<>>]}
        \cup {[given |-> TRUE, exists |-> TRUE, readable |-> TRUE, cards |-> m] :
                m \in ExistingMaps}

MainInit ==
    /\ pc = "main_parse"
    /\ deck \in Decks
    /\ extracted = <<>>
    /\ written = <<>>
    /\ printed = <<>>
    /\ DiffIdle
    /\ ParseIdle
    /\ ExtractIdle
    /\ LevelIdle
    /\ FetchIdle

\* parse_point_pages has one more card to return
main_parse_card(card) ==
    /\ pc = "main_parse"
    /\ Len(extracted) < MaxCards
    /\ extracted' = Append(extracted, card)
    /\ UNCHANGED <<pc, diffVars, deck, written, printed, nonMainVars>>

\* cards_to_export = parse_point_pages(...); stats = {"new": len(...), ...}
main_parsed ==
    /\ pc = "main_parse"
    /\ pc' = "main_deck"
    /\ cards_to_export' = extracted
    /\ stats' = [new |-> Len(extracted), update |-> 0, skipped |-> 0]
    /\ UNCHANGED <<existing_cards, scraped_cards, outcome, mainVars, nonMainVars>>

\* the existing deck is read and the scraped cards are diffed against it
main_diff ==
    /\ pc = "main_deck"
    /\ deck_found(deck)
    /\ pc' = "main_export"
    /\ LET existing == get_existing_cards_from_deck(deck)
           result == diff_existing_and_scraped(existing, cards_to_export)
       IN  /\ existing_cards' = existing
           /\ scraped_cards' = cards_to_export
           /\ cards_to_export' = result.cards_to_export
           /\ stats' = result.stats
           /\ outcome' = result.outcome
    /\ UNCHANGED <<mainVars, nonMainVars>>

\* no deck at that path: the if is skipped
main_no_deck ==
    /\ pc = "main_deck"
    /\ ~deck_found(deck)
    /\ pc' = "main_export"
    /\ UNCHANGED <<diffVars, mainVars, nonMainVars>>

\* print("Nothing to export!")
main_nothing ==
    /\ pc = "main_export"
    /\ nothing_to_export(cards_to_export)
    /\ pc' = "main_report"
    /\ printed' = Append(printed, <<"Nothing to export!">>)
    /\ UNCHANGED <<diffVars, deck, extracted, written, nonMainVars>>

\* write_to_anki_deck(cards_to_export, args.output); print("Success! ...")
main_write ==
    /\ pc = "main_export"
    /\ ~nothing_to_export(cards_to_export)
    /\ pc' = "main_report"
    /\ written' = Append(written, write_to_anki_deck(cards_to_export, DEFAULT_DECK_LOCATION))
    /\ printed' = Append(printed, <<"Success! Generated deck at '">>
                                    \o DEFAULT_DECK_LOCATION \o <<"'.">>)
    /\ UNCHANGED <<diffVars, deck, extracted, nonMainVars>>

\* the report is printed and main ends
main_report ==
    /\ pc = "main_report"
    /\ pc' = "main_done"
    /\ printed' = printed \o report(stats)
    /\ UNCHANGED <<diffVars, deck, extracted, written, nonMainVars>>

MainNext ==
    \/ \E card \in MainCards : main_parse_card(card)
    \/ main_parsed
    \/ main_diff
    \/ main_no_deck
    \/ main_nothing
    \/ main_write
    \/ main_report

\* main runs on without waiting for anything: every step is taken
SpecMain == MainInit /\ [][MainNext]_vars /\ WF_vars(MainNext)

---------------------------------------------------------------------------
(* Claim about main *)

Nothing == <<"Nothing to export!">>

IsSuccess(line) == line # <<>> /\ line[1] = "Success! Generated deck at '"

\* the lines printed are message followed by the report showing n, u and k
Reported(message(_), n, u, k) ==
    /\ Len(printed) = 5
    /\ message(printed[1])
    /\ printed[2] = <<"\n--- Report ---">>
    /\ printed[3] = <<"New Cards: ", Digits[n + 1]>>
    /\ printed[4] = <<"Updates:   ", Digits[u + 1], " (Content changed)">>
    /\ printed[5] = <<"Skipped:   ", Digits[k + 1], " (Identical)">>

\* --deck names a file that exists and can be read as a deck
ReadableDeck == deck.given /\ deck.exists /\ deck.readable

C16_End ==
    pc = "main_done" =>
        /\ cards_to_export # <<>> =>
            /\ Len(written) = 1
            /\ written[1].anki_cards = cards_to_export
            /\ Len(written[1].notes) = Len(cards_to_export)
            /\ Reported(IsSuccess, stats.new, stats.update, stats.skipped)
        /\ cards_to_export = <<>> =>
            /\ written = <<>>
            /\ Reported(LAMBDA line : line = Nothing, stats.new, stats.update, stats.skipped)
        /\ ~ReadableDeck =>
            /\ stats = [new |-> Len(extracted), update |-> 0, skipped |-> 0]
            /\ cards_to_export = extracted

\* the writer is called at most once, and never with an empty export list
C16_Step ==
    written' # written =>
        /\ written = <<>>
        /\ Len(written') = 1
        /\ cards_to_export # <<>>

====
